---- MODULE Spec2Model ----
(***************************************************************************)
(* A model of tle.js (src/src/main.js): the TLE parser and its cache, the  *)
(* checksum validator, the field decoders, the epoch resolver, the         *)
(* antemeridian predicate and the antemeridian crossing search.            *)
(*                                                                         *)
(* Strings are sequences of one-character strings.  JavaScript numbers are *)
(* integers, with NaN a distinguished value that no arithmetic produces.   *)
(***************************************************************************)
EXTENDS Integers, Sequences, FiniteSets, TLC

VARIABLES
  cache,      \* this.cache: one map per memoised function, keyed as the code keys it
  last,       \* what the last public call was given and what it returned or threw
  orbit,      \* the propagator collaborator: the ground track it computes
  arg,        \* the input drawn for a pure helper
  out         \* the value the pure helper returned for arg

vars == <<cache, last, orbit, arg, out>>

(***************************************************************************)
(* JavaScript primitives                                                   *)
(***************************************************************************)

\* NaN: the result of parseInt on a string with no leading digits.
NaN == -999999999

Digits == {"0", "1", "2", "3", "4", "5", "6", "7", "8", "9"}

\* The characters String.prototype.trim removes, among those the model uses.
Whitespace == {" ", "\n"}

DigitVal(c) ==
  CASE c = "0" -> 0 [] c = "1" -> 1 [] c = "2" -> 2 [] c = "3" -> 3 [] c = "4" -> 4
    [] c = "5" -> 5 [] c = "6" -> 6 [] c = "7" -> 7 [] c = "8" -> 8 [] c = "9" -> 9

Min(a, b) == IF a < b THEN a ELSE b

\* a === b on numbers: NaN is equal to nothing, itself included.
StrictEq(a, b) == a # NaN /\ b # NaN /\ a = b

\* a + b on numbers.
Plus(a, b) == IF a = NaN \/ b = NaN THEN NaN ELSE a + b

\* a % b on numbers, for a >= 0.
Rem(a, b) == IF a = NaN THEN NaN ELSE a % b

\* F(e), with e evaluated once.
Eval(e, F(_)) == CHOOSE r \in {F(x) : x \in {e}} : TRUE

Minimum(S) == CHOOSE x \in S : \A y \in S : x <= y
Maximum(S) == CHOOSE x \in S : \A y \in S : x >= y

\* String.prototype.trim
Trim(s) ==
  LET kept == {i \in 1..Len(s) : s[i] \notin Whitespace}
  IN  IF kept = {} THEN <<>> ELSE SubSeq(s, Minimum(kept), Maximum(kept))

\* s without its leading whitespace.
TrimLeft(s) ==
  LET kept == {i \in 1..Len(s) : s[i] \notin Whitespace}
  IN  IF kept = {} THEN <<>> ELSE SubSeq(s, Minimum(kept), Len(s))

\* String.prototype.substr(start, length), start >= 0
Substr(s, start, length) ==
  IF start >= Len(s) THEN <<>> ELSE SubSeq(s, start + 1, Min(start + length, Len(s)))

RECURSIVE Pow10(_)
Pow10(n) == IF n = 0 THEN 1 ELSE 10 * Pow10(n - 1)

\* The number of digits s starts with from position from on.
LeadingDigits(s, from) ==
  LET others == {i \in from..Len(s) : s[i] \notin Digits}
  IN  IF others = {} THEN Len(s) - from + 1 ELSE Minimum(others) - from

\* The number the digits s[lo..hi] write.
RECURSIVE DigitsValue(_, _, _)
DigitsValue(s, lo, hi) ==
  IF lo > hi THEN 0
  ELSE IF lo = hi THEN DigitVal(s[lo])
  ELSE DigitsValue(s, lo, (lo + hi) \div 2) * Pow10(hi - (lo + hi) \div 2)
         + DigitsValue(s, (lo + hi) \div 2 + 1, hi)

\* parseInt(s, 10): leading whitespace, an optional sign, the leading digits.
ParseInt(s) ==
  Eval(TrimLeft(s), LAMBDA t :
    LET signed == t # <<>> /\ t[1] \in {"-", "+"}
        from == IF signed THEN 2 ELSE 1
        k == LeadingDigits(t, from)
    IN  IF k = 0 THEN NaN
        ELSE IF signed /\ t[1] = "-" THEN 0 - DigitsValue(t, from, from + k - 1)
        ELSE DigitsValue(t, from, from + k - 1))

\* String.prototype.split('\n'): the pieces between consecutive line breaks.
Split(s) ==
  LET breaks == {i \in 1..Len(s) : s[i] = "\n"}
      \* the position of the k-th line break; 0 before the first, Len(s) + 1 after the last
      Break(k) ==
        IF k = 0 THEN 0
        ELSE IF k > Cardinality(breaks) THEN Len(s) + 1
        ELSE CHOOSE i \in breaks : Cardinality({j \in breaks : j < i}) = k - 1
  IN  [k \in 1..(Cardinality(breaks) + 1) |-> SubSeq(s, Break(k - 1) + 1, Break(k) - 1)]

\* Array.prototype.join('')
RECURSIVE Join(_)
Join(a) == IF a = <<>> THEN <<>> ELSE Head(a) \o Join(Tail(a))

\* Array.prototype.join('\n'): how a caller writes lines into one string.
RECURSIVE JoinNL(_)
JoinNL(a) ==
  IF a = <<>> THEN <<>>
  ELSE IF Len(a) = 1 THEN Head(a)
  ELSE Head(a) \o <<"\n">> \o JoinNL(Tail(a))

\* A map with one more entry (obj[key] = val).
Put(f, key, val) == (key :> val) @@ f

EmptyMap == [k \in {} |-> FALSE]

(***************************************************************************)
(* The field schema                                                        *)
(***************************************************************************)

INT == "INT"
FLOAT == "FLOAT"
CHAR == "CHAR"
DECIMAL_ASSUMED == "DECIMAL_ASSUMED"
DECIMAL_ASSUMED_E == "DECIMAL_ASSUMED_E"

tleLines ==
  [line1 |->
     [lineNumber1 |-> [start |-> 0, length |-> 1, type |-> INT],
      satelliteNumber |-> [start |-> 2, length |-> 5, type |-> INT],
      classification |-> [start |-> 7, length |-> 1, type |-> CHAR],
      intDesignatorYear |-> [start |-> 9, length |-> 2, type |-> INT],
      intDesignatorLaunchNumber |-> [start |-> 11, length |-> 3, type |-> INT],
      intDesignatorPieceOfLaunch |-> [start |-> 14, length |-> 3, type |-> CHAR],
      epochYear |-> [start |-> 18, length |-> 2, type |-> INT],
      epochDay |-> [start |-> 20, length |-> 12, type |-> FLOAT],
      firstTimeDerivative |-> [start |-> 33, length |-> 11, type |-> FLOAT],
      secondTimeDerivative |-> [start |-> 44, length |-> 8, type |-> DECIMAL_ASSUMED_E],
      bstarDrag |-> [start |-> 53, length |-> 8, type |-> DECIMAL_ASSUMED_E],
      orbitModel |-> [start |-> 62, length |-> 1, type |-> INT],
      tleSetNumber |-> [start |-> 64, length |-> 4, type |-> INT],
      checksum1 |-> [start |-> 68, length |-> 1, type |-> INT]],
   line2 |->
     [lineNumber2 |-> [start |-> 0, length |-> 1, type |-> INT],
      satelliteNumber2 |-> [start |-> 2, length |-> 5, type |-> INT],
      inclination |-> [start |-> 8, length |-> 8, type |-> FLOAT],
      rightAscension |-> [start |-> 17, length |-> 8, type |-> FLOAT],
      eccentricity |-> [start |-> 26, length |-> 7, type |-> DECIMAL_ASSUMED],
      perigee |-> [start |-> 34, length |-> 8, type |-> FLOAT],
      meanAnomaly |-> [start |-> 43, length |-> 8, type |-> FLOAT],
      meanMotion |-> [start |-> 52, length |-> 11, type |-> FLOAT],
      revNumberAtEpoch |-> [start |-> 63, length |-> 5, type |-> INT],
      checksum2 |-> [start |-> 68, length |-> 1, type |-> INT]]]

(***************************************************************************)
(* Inputs                                                                  *)
(***************************************************************************)

\* A raw input of each shape the parser tells apart.
StringInput(s) == [kind |-> "string", str |-> s, name |-> <<>>, arr |-> <<>>]
ArrayInput(a) == [kind |-> "array", str |-> <<>>, name |-> <<>>, arr |-> a]
\* An already-parsed record: an object carrying an arr attribute.
Record(name, a) == [kind |-> "record", str |-> <<>>, name |-> name, arr |-> a]
\* A value that is none of these: a number, a boolean, null, undefined, or an
\* object with no arr attribute.
OtherInput(kind) == [kind |-> kind, str |-> <<>>, name |-> <<>>, arr |-> <<>>]

Unknown == <<"U", "n", "k", "n", "o", "w", "n">>

EmptyCache ==
  [parseTLE |-> EmptyMap,
   isValidTLE |-> EmptyMap,
   getSatelliteInfo |-> EmptyMap,
   getAverageOrbitLengthMins |-> EmptyMap,
   antemeridianCrossings |-> EmptyMap,
   getOrbitTrack |-> EmptyMap,
   getGroundTrackLatLng |-> EmptyMap]

(***************************************************************************)
(* parseTLE                                                                *)
(***************************************************************************)

\* The result of a call: whether it threw, what it returned, the cache it leaves.
Returned(val, c) == [threw |-> FALSE, val |-> val, cache |-> c]
Threw(c) == [threw |-> TRUE, val |-> FALSE, cache |-> c]

\* What a call can throw: the parser's own error, or the TypeError of reading
\* an attribute of null or undefined.
InvalidInput == "TLE input is invalid"
TypeError == "TypeError"
Thrown(error, c) == [threw |-> TRUE, val |-> FALSE, cache |-> c, error |-> error]

\* `${undefined}`
UndefinedText == <<"u", "n", "d", "e", "f", "i", "n", "e", "d">>

\* The first 30 characters that every cache key is built from.
KeyOf(s) == Substr(s, 0, 30)

\* A parser that keeps the lines as they come.
NoTrimLines(tleArr) == tleArr

\* tleArr.map(line => line.trim())
TrimLines(tleArr) == [i \in 1..Len(tleArr) |-> Trim(tleArr[i])]

\* c is the cache the call starts from.  null fails at inputTLE.arr, undefined
\* at tleStrLong.substr; any other value that is neither a string nor an array
\* has no substr, so its key is the text of undefined.
ParseTLE(c, inputTLE) ==
  IF inputTLE.kind = "null" THEN Thrown(TypeError, c)
  ELSE IF inputTLE.kind = "record" THEN Returned(inputTLE, c)
  ELSE IF inputTLE.kind = "undefined" THEN Thrown(TypeError, c)
  ELSE
    Eval(IF inputTLE.kind = "array" THEN KeyOf(Join(inputTLE.arr))
         ELSE IF inputTLE.kind = "string" THEN KeyOf(inputTLE.str)
         ELSE UndefinedText,
         LAMBDA cacheKey :
      IF cacheKey \in DOMAIN c.parseTLE THEN Returned(c.parseTLE[cacheKey], c)
      ELSE IF inputTLE.kind \notin {"array", "string"} THEN Thrown(InvalidInput, c)
      ELSE
        Eval(IF inputTLE.kind = "array" THEN inputTLE.arr ELSE Split(inputTLE.str),
             LAMBDA tleArr :
          Eval(IF Len(tleArr) > 2
                 THEN Record(tleArr[1], TrimLines(Tail(tleArr)))
                 ELSE Record(Unknown, TrimLines(tleArr)),
               LAMBDA outputObj :
            Returned(outputObj, [c EXCEPT !.parseTLE = Put(@, cacheKey, outputObj)]))))

(***************************************************************************)
(* tleLineChecksum                                                         *)
(***************************************************************************)

\* Number(c) for a one-character string c.
ToNumber(ch) ==
  IF ch \in Digits THEN DigitVal(ch) ELSE IF ch \in Whitespace THEN 0 ELSE NaN

\* The reduce callback: sum is what the previous call returned, or the first
\* character when the callback runs for the first time.
ChecksumCallback(parsedSum, val) ==
  Eval(ParseInt(<<val>>), LAMBDA parsedVal :
    IF parsedVal # NaN THEN Plus(parsedSum, parsedVal)
    ELSE IF val = "-" THEN Plus(parsedSum, 1)
    ELSE parsedSum)

\* The callback applied in turn to charArr[lo], ..., charArr[hi], starting from
\* parsedSum.
RECURSIVE Reduce(_, _, _, _)
Reduce(parsedSum, charArr, lo, hi) ==
  IF lo > hi THEN parsedSum
  ELSE IF lo = hi THEN ChecksumCallback(parsedSum, charArr[lo])
  ELSE Eval(Reduce(parsedSum, charArr, lo, (lo + hi) \div 2), LAMBDA sum :
         Reduce(sum, charArr, (lo + hi) \div 2 + 1, hi))

\* [threw, val]: reduce has no initial value, so the first character is the
\* first sum, and the result itself when the body has one character.
TleLineChecksum(tleLineStr) ==
  Eval(SubSeq(tleLineStr, 1, Len(tleLineStr) - 1), LAMBDA charArr :
    IF Len(charArr) = 0 THEN [threw |-> TRUE, val |-> NaN]
    ELSE IF Len(charArr) = 1
      THEN [threw |-> FALSE, val |-> Rem(ToNumber(charArr[1]), 10)]
    ELSE [threw |-> FALSE,
          val |-> Rem(Reduce(ParseInt(<<charArr[1]>>), charArr, 2, Len(charArr)), 10)])

(***************************************************************************)
(* The field decoders                                                      *)
(***************************************************************************)

Abs(n) == IF n < 0 THEN 0 - n ELSE n

\* The length of n.toString() for an integer n >= 0.
RECURSIVE ToStringLength(_)
ToStringLength(n) == IF n < 10 THEN 1 ELSE 1 + ToStringLength(n \div 10)

\* Number(s) for a string of digits with an optional sign and surrounding
\* whitespace: the empty string is 0, anything else is NaN.
ToNumberStr(s) ==
  Eval(Trim(s), LAMBDA t :
    LET signed == t # <<>> /\ t[1] \in {"-", "+"}
        from == IF signed THEN 2 ELSE 1
        k == LeadingDigits(t, from)
    IN  IF t = <<>> THEN 0
        ELSE IF k = 0 \/ from + k - 1 # Len(t) THEN NaN
        ELSE IF t[1] = "-" THEN 0 - DigitsValue(t, from, Len(t))
        ELSE DigitsValue(t, from, Len(t)))

\* A decimal number m * 10^e in normal form: m has no trailing zero, 0 is 0 * 10^0.
RECURSIVE Sci(_, _)
Sci(m, e) ==
  IF m = 0 THEN [m |-> 0, e |-> 0]
  ELSE IF m % 10 = 0 THEN Sci(m \div 10, e + 1)
  ELSE [m |-> m, e |-> e]

SciNaN == [m |-> NaN, e |-> 0]

\* Number.prototype.toPrecision(p): the nearest number of p significant
\* digits, the larger magnitude on a tie.
ToPrecision(x, p) ==
  IF x.m = NaN THEN SciNaN
  ELSE
    LET d == ToStringLength(Abs(x.m))
        cut == Pow10(d - p)
        q == IF d > p THEN (Abs(x.m) + cut \div 2) \div cut ELSE Abs(x.m)
    IN  IF d <= p THEN Sci(x.m, x.e)
        ELSE Sci(IF x.m < 0 THEN 0 - q ELSE q, x.e + (d - p))

GetDigitCount(num) ==
  Eval(ToNumberStr(num), LAMBDA absVal :
    IF absVal = NaN THEN 3 ELSE ToStringLength(Abs(absVal)))

\* num * `0.${zeroes}1` with numDigits - 1 zeroes, that is num * 10^-numDigits.
ToLeadingDecimal(num) ==
  Eval(ToNumberStr(num), LAMBDA n :
    IF n = NaN THEN SciNaN ELSE Sci(n, 0 - GetDigitCount(num)))

DecimalAssumedEToFloat(str) ==
  Eval(<<ToLeadingDecimal(Substr(str, 0, Len(str) - 2)),
         ParseInt(Substr(str, Len(str) - 2, 2))>>, LAMBDA v :
    LET num == v[1]
        leadingDecimalPoints == v[2]
        float == IF num.m = NaN \/ leadingDecimalPoints = NaN THEN SciNaN
                 ELSE Sci(num.m, num.e + leadingDecimalPoints)
    IN  ToPrecision(float, 5))

\* The values of the digits s[lo..hi].
DigitSeq(s, lo, hi) == [i \in 1..(hi - lo + 1) |-> DigitVal(s[lo + i - 1])]

\* parseFloat(s) for a fixed-point literal: the integer part and the digits
\* of the fraction; nan when s starts with no number.
ParseFloat(s) ==
  Eval(TrimLeft(s), LAMBDA t :
    LET signed == t # <<>> /\ t[1] \in {"-", "+"}
        from == IF signed THEN 2 ELSE 1
        k == LeadingDigits(t, from)
        dot == from + k
        f == IF dot <= Len(t) /\ t[dot] = "." THEN LeadingDigits(t, dot + 1) ELSE 0
    IN  [nan |-> k = 0 /\ f = 0,
         neg |-> signed /\ t[1] = "-",
         ip |-> DigitsValue(t, from, from + k - 1),
         fd |-> DigitSeq(t, dot + 1, dot + f)])

Decode(type, substr) ==
  CASE type = INT -> ParseInt(substr)
    [] type = FLOAT -> ParseFloat(substr)
    [] type = DECIMAL_ASSUMED -> ParseFloat(<<"0", ".">> \o substr)
    [] type = DECIMAL_ASSUMED_E -> DecimalAssumedEToFloat(substr)
    [] OTHER -> Trim(substr)

\* The getter createTLEValGetter builds for field prop of tleLine: [threw, val,
\* cache].  It throws when the record has no such line.
Getter(c, tle, tleLine, prop) ==
  Eval(ParseTLE(c, tle), LAMBDA p :
    LET tleArr == p.val.arr
        index == IF tleLine = "line1" THEN 1 ELSE 2
        desc == tleLines[tleLine][prop]
    IN  IF p.threw \/ Len(tleArr) < index THEN Threw(p.cache)
        ELSE Returned(Decode(desc.type, Substr(tleArr[index], desc.start, desc.length)),
                      p.cache))

(***************************************************************************)
(* isValidTLE                                                              *)
(***************************************************************************)

\* The body of the forEach callback for one line: [threw, ok].
CheckLine(c, parsedTLE, index) ==
  LET lineNumber == index
      tleLine == IF index = 1 THEN "line1" ELSE "line2"
  IN  Eval(<<Getter(c, parsedTLE, tleLine,
                    IF index = 1 THEN "lineNumber1" ELSE "lineNumber2").val,
             TleLineChecksum(parsedTLE.arr[index]),
             Getter(c, parsedTLE, tleLine,
                    IF index = 1 THEN "checksum1" ELSE "checksum2").val>>, LAMBDA v :
        LET parsedLineNumber == v[1]
            calculatedLineChecksum == v[2]
            parsedChecksum == v[3]
            lineNumberIsValid == StrictEq(parsedLineNumber, lineNumber)
            checksumIsValid == StrictEq(parsedChecksum, calculatedLineChecksum.val)
        IN  [threw |-> calculatedLineChecksum.threw,
             ok |-> lineNumberIsValid /\ checksumIsValid])

\* forEach over the lines from index on: a line is a no-op once isValid is false.
RECURSIVE ForEachLine(_, _, _, _)
ForEachLine(c, parsedTLE, index, isValid) ==
  IF index > Len(parsedTLE.arr) THEN [threw |-> FALSE, isValid |-> isValid]
  ELSE IF ~isValid THEN ForEachLine(c, parsedTLE, index + 1, isValid)
  ELSE Eval(CheckLine(c, parsedTLE, index), LAMBDA r :
         IF r.threw THEN [threw |-> TRUE, isValid |-> isValid]
         ELSE ForEachLine(c, parsedTLE, index + 1, r.ok))

IsValidTLE(c, tle) ==
  Eval(ParseTLE(c, tle), LAMBDA p :
    IF p.threw THEN Threw(p.cache)
    ELSE
      Eval(KeyOf(Join(p.val.arr)), LAMBDA cacheKey :
        IF cacheKey \in DOMAIN p.cache.isValidTLE /\ p.cache.isValidTLE[cacheKey]
          THEN Returned(p.cache.isValidTLE[cacheKey], p.cache)
        ELSE IF Len(p.val.arr) # 2 THEN Returned(FALSE, p.cache)
        ELSE
          Eval(ForEachLine(p.cache, p.val, 1, TRUE), LAMBDA r :
            IF r.threw THEN Threw(p.cache)
            ELSE Returned(r.isValid,
                          [p.cache EXCEPT !.isValidTLE = Put(@, cacheKey, r.isValid)]))))

(***************************************************************************)
(* The propagator collaborator (satellite.js)                              *)
(***************************************************************************)

\* Longitudes and latitudes are in thousandths of a degree, times in ms.
DEG == 1000

MS_IN_A_DAY == 86400000

\* A longitude brought back into [-180, 180) degrees.
Wrap(lng) == ((lng + 180 * DEG) % (360 * DEG)) - 180 * DEG

\* The sub-satellite point the collaborator computes at time t.  A periodic
\* orbit sweeps the longitudes eastwards once per period (a multiple of 360
\* seconds) and passes the antemeridian at phase + k * period; a fixed orbit
\* stays over one longitude; a polar orbit keeps its meridian for half a
\* period, passes a pole onto the opposite meridian, and drifts westwards with
\* the rotation of the Earth, 360 degrees a day.
Propagate(o, t) ==
  IF o.kind = "fixed" THEN [lat |-> 0, lng |-> o.lng]
  ELSE IF o.kind = "polar"
    THEN [lat |-> 0,
          lng |-> Wrap(o.lng - t \div (MS_IN_A_DAY \div (360 * DEG))
                         + (IF (t % o.period) * 2 < o.period THEN 0 ELSE 180 * DEG))]
  ELSE
    LET x == (t - o.phase) % o.period
    IN  [lat |-> ((x * 2) \div o.period) * 50 * DEG - 25 * DEG,
         lng |-> x \div (o.period \div (360 * DEG)) - 180 * DEG]

(***************************************************************************)
(* getSatelliteInfo, getLatLon, getLatLonArr                               *)
(***************************************************************************)

\* A call that may reach the propagator: prop counts the propagator runs.
Returned2(val, c, prop) == [threw |-> FALSE, val |-> val, cache |-> c, prop |-> prop]
Threw2(c, prop) == [threw |-> TRUE, val |-> FALSE, cache |-> c, prop |-> prop]

\* now is what Date.now() returns during the call; timestamp 0 is a timestamp
\* left out.  observer is <<observerLat, observerLng, observerHeight>> in
\* thousandths, 0 an argument left out.  The output holds the position and,
\* in look, the observer position the look angles are computed from.
DefaultObserverPosition == <<36961, -122031, 370>>

\* getSatelliteInfo without its memoization.
UncachedGetSatelliteInfo(c, o, now, tle, timestamp, observer) ==
  Eval(ParseTLE(c, tle), LAMBDA p :
    IF p.threw THEN Threw2(p.cache, 0)
    ELSE
      LET timestampCopy == IF timestamp = 0 THEN now ELSE timestamp
          tleArr == p.val.arr
          obs == [i \in 1..3 |-> IF observer[i] = 0 THEN DefaultObserverPosition[i]
                                 ELSE observer[i]]
      IN  Eval(<<timestampCopy, KeyOf(Join(tleArr)), observer>>, LAMBDA cacheKey :
              Eval(Propagate(o, timestampCopy), LAMBDA p2 :
                LET output == [lat |-> p2.lat, lng |-> p2.lng, look |-> obs]
                IN  Returned2(output,
                              [p.cache EXCEPT !.getSatelliteInfo = Put(@, cacheKey, output)],
                              1))))

\* The key is written <<timestamp, first 30 characters, observer>>.
GetSatelliteInfo(c, o, now, tle, timestamp, observer) ==
  Eval(ParseTLE(c, tle), LAMBDA p :
    IF p.threw THEN Threw2(p.cache, 0)
    ELSE
      LET timestampCopy == IF timestamp = 0 THEN now ELSE timestamp
          tleArr == p.val.arr
          obs == [i \in 1..3 |-> IF observer[i] = 0 THEN DefaultObserverPosition[i]
                                 ELSE observer[i]]
      IN  Eval(<<timestampCopy, KeyOf(Join(tleArr)), observer>>, LAMBDA cacheKey :
            IF cacheKey \in DOMAIN p.cache.getSatelliteInfo
              THEN Returned2(p.cache.getSatelliteInfo[cacheKey], p.cache, 0)
            ELSE
              Eval(Propagate(o, timestampCopy), LAMBDA p2 :
                LET output == [lat |-> p2.lat, lng |-> p2.lng, look |-> obs]
                IN  Returned2(output,
                              [p.cache EXCEPT !.getSatelliteInfo = Put(@, cacheKey, output)],
                              1))))

GetLatLon(c, o, now, tle, optionalTimestamp) ==
  Eval(ParseTLE(c, tle), LAMBDA p :
    IF p.threw THEN Threw2(p.cache, 0)
    ELSE
      Eval(IsValidTLE(p.cache, p.val), LAMBDA v :
        IF v.threw \/ ~v.val THEN Threw2(v.cache, 0)
        ELSE
          Eval(GetSatelliteInfo(v.cache, o, now, ArrayInput(p.val.arr), optionalTimestamp,
                                <<0, 0, 0>>),
               LAMBDA satInfo :
            IF satInfo.threw THEN satInfo
            ELSE Returned2([lat |-> satInfo.val.lat, lng |-> satInfo.val.lng],
                           satInfo.cache, satInfo.prop))))

GetLatLonArr(c, o, now, tle, optionalTimestamp) ==
  Eval(GetLatLon(c, o, now, tle, optionalTimestamp), LAMBDA ll :
    IF ll.threw THEN ll
    ELSE Returned2(<<ll.val.lat, ll.val.lng>>, ll.cache, ll.prop))

(***************************************************************************)
(* The engine: parseTLE, isValidTLE and getLatLon sharing one cache         *)
(***************************************************************************)

\* The ISS (ZARYA) element set of the documentation.
ISSName == <<"I", "S", "S", " ", "(", "Z", "A", "R", "Y", "A", ")">>

ISSLine1 ==
  <<
    "1", " ", "2", "5", "5", "4", "4", "U", " ", "9", "8", "0", "6", "7", "A", " ", " ",
    " ", "1", "7", "2", "0", "6", ".", "1", "8", "3", "9", "6", "7", "2", "6", " ", " ",
    ".", "0", "0", "0", "0", "1", "9", "6", "1", " ", " ", "0", "0", "0", "0", "0", "-",
    "0", " ", " ", "3", "6", "7", "7", "1", "-", "4", " ", "0", " ", " ", "9", "9", "9", "3"
  >>

ISSLine2 ==
  <<
    "2", " ", "2", "5", "5", "4", "4", " ", " ", "5", "1", ".", "6", "4", "0", "0", " ",
    "2", "0", "8", ".", "9", "1", "6", "3", " ", "0", "0", "0", "6", "3", "1", "7", " ",
    " ", "6", "9", ".", "9", "8", "6", "2", " ", " ", "2", "5", ".", "2", "9", "0", "6",
    " ", "1", "5", ".", "5", "4", "2", "2", "5", "9", "9", "5", " ", "6", "7", "6", "6", "0"
  >>

\* line with the character of column col (from 0) replaced by ch.
SetCol(line, col, ch) == [line EXCEPT ![col + 1] = ch]

\* Line 1 with a corrupted checksum column; with a corrupted line-number column
\* (and the checksum that goes with it); of another element set of the same
\* satellite, valid, equal to the first up to column 41.
Line1BadChecksum == SetCol(ISSLine1, 68, "4")
Line1BadNumber == SetCol(SetCol(ISSLine1, 0, "7"), 68, "9")
Line1Other == SetCol(SetCol(ISSLine1, 42, "2"), 68, "4")
Line2BadChecksum == SetCol(ISSLine2, 68, "1")
Line2BadNumber == SetCol(SetCol(ISSLine2, 0, "3"), 68, "1")

\* The line arrays the calls are made with.
ValidTLE == <<ISSLine1, ISSLine2>>

Padded(line) == <<" ">> \o line \o <<" ">>

\* The raw inputs parsed: a valid element set, one that differs from it after
\* column 30, a single line, blank lines, four padded lines, a named array.
ParseInputs ==
  {StringInput(JoinNL(a)) : a \in
     {ValidTLE, <<ISSLine1, Line2BadChecksum>>, <<ISSLine1>>, <<<<>>, <<>>>>,
      <<ISSName, Padded(Line1Other), Padded(ISSLine2), ISSLine2>>}}
  \cup {ArrayInput(<<ISSName, ISSLine1, ISSLine2>>), Record(ISSName, ValidTLE)}

\* The records validated, and two raw inputs.
ValidInputs ==
  {Record(Unknown, a) : a \in
     {ValidTLE,
      <<Line1BadChecksum, ISSLine2>>,
      <<Line1BadNumber, ISSLine2>>,
      <<ISSLine1, Line2BadNumber>>,
      <<<<>>, ISSLine2>>,
      <<ISSLine1, <<"2">>>>,
      <<Line1BadNumber, <<"2">>>>,
      <<ISSLine1>>,
      <<ISSLine1, ISSLine2, ISSLine2>>}}
  \cup {StringInput(JoinNL(<<<<>>, <<>>>>)), ArrayInput(ValidTLE)}

\* The inputs of the position queries.
LatLonInputs ==
  {Record(Unknown, ValidTLE),
   Record(Unknown, <<Line1BadChecksum, ISSLine2>>),
   Record(Unknown, <<Line1BadNumber, ISSLine2>>),
   StringInput(JoinNL(<<ISSLine1, Line2BadChecksum>>))}

\* The timestamp of the position queries and the clock.
Timestamps == {1501039265}
Now == 1501040000

ISSOrbit == [kind |-> "periodic", period |-> 5400000, phase |-> 0]

NoCall == [op |-> "none", input |-> Record(<<>>, <<>>), time |-> 0,
           threw |-> FALSE, val |-> FALSE, prop |-> 0]

\* The observation of a call: prop counts the propagator runs of a getLatLon
\* and the positions asked of getLatLonArr by a search.
Call(op, input, time, r, prop) ==
  [op |-> op, input |-> input, time |-> time,
   threw |-> r.threw, val |-> r.val, prop |-> prop]

Init ==
  /\ cache = EmptyCache
  /\ last = NoCall
  /\ orbit = ISSOrbit
  /\ arg = <<>>
  /\ out = <<>>

parseTLE ==
  \E inputTLE \in ParseInputs :
    \E r \in {ParseTLE(cache, inputTLE)} :
        /\ cache' = r.cache
        /\ last' = Call("parseTLE", inputTLE, 0, r, 0)
        /\ UNCHANGED <<orbit, arg, out>>

isValidTLE ==
  \E tle \in ValidInputs :
    \E r \in {IsValidTLE(cache, tle)} :
        /\ cache' = r.cache
        /\ last' = Call("isValidTLE", tle, 0, r, 0)
        /\ UNCHANGED <<orbit, arg, out>>

getLatLon ==
  \E tle \in LatLonInputs, optionalTimestamp \in Timestamps :
    \E r \in {GetLatLon(cache, orbit, Now, tle, optionalTimestamp)} :
        /\ cache' = r.cache
        /\ last' = Call("getLatLon", tle, optionalTimestamp, r, r.prop)
        /\ UNCHANGED <<orbit, arg, out>>

Next == parseTLE \/ isValidTLE \/ getLatLon

Spec == Init /\ [][Next]_vars

(***************************************************************************)
(* tleLineChecksum on its own                                              *)
(***************************************************************************)

MaxLineLen == 3

LineChars == {"2", "9", "-", "+", ".", "A", " "}

\* The lines of 1 to MaxLineLen characters.
ChecksumLines == UNION {[1..n -> LineChars] : n \in 1..MaxLineLen}

InitChecksum ==
  /\ cache = EmptyCache
  /\ last = NoCall
  /\ orbit = ISSOrbit
  /\ arg \in ChecksumLines
  /\ out = <<>>

tleLineChecksum ==
  /\ out = <<>>
  /\ out' = <<TleLineChecksum(arg)>>
  /\ UNCHANGED <<cache, last, orbit, arg>>

SpecChecksum == InitChecksum /\ [][tleLineChecksum]_vars

(***************************************************************************)
(* decimalAssumedEToFloat on its own                                       *)
(***************************************************************************)

MantissaLen == 5

MantissaDigits == {"0", "3", "7"}

\* A sign or a space, MantissaLen digits, a signed one-digit exponent: the
\* eight columns of bstarDrag and secondTimeDerivative.
DecimalStrings ==
  {<<sgn>> \o m \o e :
     sgn \in {" ", "-", "+"},
     m \in [1..MantissaLen -> MantissaDigits],
     e \in {<<"-", "0">>, <<"-", "4">>, <<"+", "1">>}}

InitDecimal ==
  /\ cache = EmptyCache
  /\ last = NoCall
  /\ orbit = ISSOrbit
  /\ arg \in DecimalStrings
  /\ out = <<>>

decimalAssumedEToFloat ==
  /\ out = <<>>
  /\ out' = <<DecimalAssumedEToFloat(arg)>>
  /\ UNCHANGED <<cache, last, orbit, arg>>

SpecDecimal == InitDecimal /\ [][decimalAssumedEToFloat]_vars

(***************************************************************************)
(* getEpochTimestamp, dayOfYearToTimeStamp                                 *)
(***************************************************************************)


\* A time in ms since 1970-01-01 UTC, as whole days and the ms of the day.
Timestamp(day, ms) == [day |-> day, ms |-> ms]

\* The days from 1970-01-01 to January 1st of year, for 1901 <= year <= 2100.
DaysToYearStart(year) == 365 * (year - 1970) + (year - 1969) \div 4

\* new Date(`1/1/${year} 0:0:0 Z`).getTime(): the date is not in the ISO
\* format, and V8, SpiderMonkey and JavaScriptCore read a year below 50 as of
\* the 2000s and a year from 50 to 99 as of the 1900s.
YearStart(year) ==
  Timestamp(DaysToYearStart(IF year < 50 THEN 2000 + year
                            ELSE IF year < 100 THEN 1900 + year
                            ELSE year), 0)

\* Math.floor(x * MS_IN_A_DAY) for the fraction x = 0.d1d2...d8 of fd, whose
\* digits an epoch day has at most eight of.
FractionMS(fd) ==
  LET d == [i \in 1..8 |-> IF i <= Len(fd) THEN fd[i] ELSE 0]
      hi == d[1] * 1000 + d[2] * 100 + d[3] * 10 + d[4]
      lo == d[5] * 1000 + d[6] * 100 + d[7] * 10 + d[8]
  IN  hi * (MS_IN_A_DAY \div 10000) + (lo * (MS_IN_A_DAY \div 100000)) \div 1000

\* fullYear is (new Date()).getFullYear(); dayOfYear is what parseFloat returns.
DayOfYearToTimeStamp(dayOfYear, year, fullYear) ==
  LET yearStart == YearStart(IF year = 0 \/ year = NaN THEN fullYear ELSE year)
  IN  Timestamp(yearStart.day + (dayOfYear.ip - 1), FractionMS(dayOfYear.fd))

GetEpochTimestamp(c, tle, fullYear) ==
  Eval(<<Getter(c, tle, "line1", "epochDay").val,
         Getter(c, tle, "line1", "epochYear").val>>, LAMBDA v :
    DayOfYearToTimeStamp(v[1], v[2], fullYear))

\* The two characters of a two-digit year.
TwoDigits(yy) == <<CHOOSE ch \in Digits : DigitVal(ch) = yy \div 10,
                   CHOOSE ch \in Digits : DigitVal(ch) = yy % 10>>

\* line with the characters from column col (from 0) on replaced by chars.
SetCols(line, col, chars) ==
  [i \in 1..Len(line) |->
     IF i > col /\ i <= col + Len(chars) THEN chars[i - col] ELSE line[i]]

EpochYears == 0..99

EpochDays ==
  {<<"2", "0", "6", ".", "1", "8", "3", "9", "6", "7", "2", "6">>,
   <<"0", "0", "1", ".", "0", "0", "0", "0", "0", "0", "0", "0">>}

FullYears == {2017, 2026}

\* The ISS element set with another epoch.
EpochTLE(yy, day) ==
  Record(Unknown, <<SetCols(SetCols(ISSLine1, 18, TwoDigits(yy)), 20, day), ISSLine2>>)

InitEpoch ==
  /\ cache = EmptyCache
  /\ last = NoCall
  /\ orbit = ISSOrbit
  /\ arg \in [yy : EpochYears, day : EpochDays, fullYear : FullYears]
  /\ out = <<>>

getEpochTimestamp ==
  /\ out = <<>>
  /\ out' = <<GetEpochTimestamp(cache, EpochTLE(arg.yy, arg.day), arg.fullYear)>>
  /\ UNCHANGED <<cache, last, orbit, arg>>

SpecEpoch == InitEpoch /\ [][getEpochTimestamp]_vars

(***************************************************************************)
(* crossesAntemeridian                                                     *)
(***************************************************************************)

\* isPositive of tle-utils.
IsPositive(num) == num >= 0

\* A longitude that is undefined is written 0: both are falsy, and nothing
\* else is asked of it.
CrossesAntemeridian(longitude1, longitude2) ==
  IF longitude1 = 0 \/ longitude2 = 0 THEN FALSE
  ELSE
    LET isLong1Positive == IsPositive(longitude1)
        isLong2Positive == IsPositive(longitude2)
        haveSameSigns == isLong1Positive = isLong2Positive
    IN  IF haveSameSigns THEN FALSE
        ELSE Abs(longitude1) > 100 * DEG

\* Longitudes of [-180, 180] degrees.
Longitudes ==
  {d * (DEG \div 10) : d \in {-1800, -1799, -1700, -1500, -1001, -1000, -500, -100, 0,
                              100, 500, 1000, 1001, 1500, 1700, 1799, 1800}}

InitCross ==
  /\ cache = EmptyCache
  /\ last = NoCall
  /\ orbit = ISSOrbit
  /\ arg \in Longitudes \X Longitudes
  /\ out = <<>>

crossesAntemeridian ==
  /\ out = <<>>
  /\ out' = <<CrossesAntemeridian(arg[1], arg[2])>>
  /\ UNCHANGED <<cache, last, orbit, arg>>

SpecCross == InitCross /\ [][crossesAntemeridian]_vars

(***************************************************************************)
(* The antemeridian crossing search                                        *)
(***************************************************************************)

\* The value a TLE has in cache.antemeridianCrossings: the array of the
\* crossing times found, or -1 in its place.
Crossings(times) == [sentinel |-> FALSE, times |-> times]
NoCrossing == [sentinel |-> TRUE, times |-> <<>>]

\* The length of an orbit is kept in ms, (24 * 60) / meanMotion minutes: the
\* quotient of MS_IN_A_DAY by the mean motion cut after its fourth decimal,
\* by long division.
OrbitLength(meanMotion) ==
  LET fd == [i \in 1..4 |-> IF i <= Len(meanMotion.fd) THEN meanMotion.fd[i] ELSE 0]
      mm == meanMotion.ip * 10000 + fd[1] * 1000 + fd[2] * 100 + fd[3] * 10 + fd[4]
  IN  IF meanMotion.nan \/ mm = 0 THEN NaN
      ELSE (MS_IN_A_DAY \div mm) * 10000 + ((MS_IN_A_DAY % mm) * 10000) \div mm

\* tle is an array of lines.
GetAverageOrbitLengthMins(c, tle) ==
  Eval(KeyOf(Join(tle)), LAMBDA cacheKey :
    IF cacheKey \in DOMAIN c.getAverageOrbitLengthMins
         /\ c.getAverageOrbitLengthMins[cacheKey] # NaN
      THEN Returned(c.getAverageOrbitLengthMins[cacheKey], c)
    ELSE
      Eval(Getter(c, ArrayInput(tle), "line2", "meanMotion"), LAMBDA m :
        IF m.threw THEN Threw(m.cache)
        ELSE
          Eval(OrbitLength(m.val), LAMBDA meanMotionSeconds :
            Returned(meanMotionSeconds,
                     [m.cache EXCEPT !.getAverageOrbitLengthMins =
                                        Put(@, cacheKey, meanMotionSeconds)]))))

\* A lookup that takes a stored -1 for no crossing time yet.
ForgetfulGetCached(c, tle, timeMS) ==
  Eval(GetAverageOrbitLengthMins(c, tle.arr), LAMBDA ol :
    IF ol.threw THEN Threw(ol.cache)
    ELSE Returned([hit |-> FALSE, time |-> 0], ol.cache))

\* The value is [hit, time]: no hit is the result false.
GetCachedLastAntemeridianCrossingTimeMS(c, tle, timeMS) ==
  Eval(GetAverageOrbitLengthMins(c, tle.arr), LAMBDA ol :
    IF ol.threw THEN Threw(ol.cache)
    ELSE
      Eval(KeyOf(Join(tle.arr)), LAMBDA tleStr :
        IF tleStr \notin DOMAIN ol.cache.antemeridianCrossings
          THEN Returned([hit |-> FALSE, time |-> 0], ol.cache)
        ELSE
          LET cachedCrossingTimes == ol.cache.antemeridianCrossings[tleStr]
              orbitLengthMS == ol.val
              IsWithinOrbit(val) ==
                LET diff == timeMS - val
                IN  timeMS # 0 /\ orbitLengthMS # NaN /\ diff > 0 /\ diff < orbitLengthMS
              cachedTime == SelectSeq(cachedCrossingTimes.times, IsWithinOrbit)
          IN  IF cachedCrossingTimes.sentinel
                THEN Returned([hit |-> TRUE, time |-> -1], ol.cache)
              ELSE IF cachedTime = <<>> \/ cachedTime[1] = 0
                THEN Returned([hit |-> FALSE, time |-> 0], ol.cache)
              ELSE Returned([hit |-> TRUE, time |-> cachedTime[1]], ol.cache)))

maxTries == 1000

\* A refinement that halves every step.
HalvedStep(step) == step \div 2

\* (step > 20000) ? 20000 : step / 2, in whole ms: the one step that is not
\* whole, 312.5, ends the loop.
NextStep(step) == IF step > 20000 THEN 20000 ELSE step \div 2

\* One pass of the body of the while loop.  s holds the locals, the cache, the
\* propagator runs so far, whether getLatLonArr threw, and the trail of the
\* passes so far: the time and the longitude sampled, the step the pass leaves
\* and whether it saw a crossing.
LoopBody(s, o, now, parsedTLE) ==
  Eval(GetLatLonArr(s.cache, o, now, ArrayInput(parsedTLE.arr), s.curTimeMS), LAMBDA curLatLon :
    IF curLatLon.threw THEN [s EXCEPT !.threw = TRUE, !.cache = curLatLon.cache]
    ELSE
      LET didCrossAntemeridian ==
            CrossesAntemeridian(IF s.lastLatLon = <<>> THEN 0 ELSE s.lastLatLon[2],
                                curLatLon.val[2])
          step == IF didCrossAntemeridian THEN NextStep(s.step) ELSE s.step
      IN  [step |-> step,
           lastLatLon |-> IF didCrossAntemeridian THEN s.lastLatLon ELSE curLatLon.val,
           curTimeMS |-> IF didCrossAntemeridian THEN s.curTimeMS + s.step
                         ELSE s.curTimeMS - s.step,
           isDone |-> step < 500 \/ s.tries >= maxTries,
           tries |-> s.tries + 1,
           threw |-> FALSE,
           cache |-> curLatLon.cache,
           prop |-> s.prop + curLatLon.prop,
           trail |-> Append(s.trail, <<s.curTimeMS, curLatLon.val[2], step,
                                       didCrossAntemeridian>>)])

\* The while loop, for at most n passes.
RECURSIVE While(_, _, _, _, _)
While(s, n, o, now, parsedTLE) ==
  IF s.isDone \/ s.threw \/ n = 0 THEN s
  ELSE IF n = 1 THEN LoopBody(s, o, now, parsedTLE)
  ELSE Eval(While(s, n \div 2, o, now, parsedTLE), LAMBDA t :
         While(t, n - n \div 2, o, now, parsedTLE))

\* [threw, val, cache, prop, tries, trail]: tries is the number of
\* getLatLonArr calls.
Found(val, c, prop, tries, trail) ==
  [threw |-> FALSE, val |-> val, cache |-> c, prop |-> prop, tries |-> tries,
   trail |-> trail]
Failed(c, prop, tries, trail) ==
  [threw |-> TRUE, val |-> FALSE, cache |-> c, prop |-> prop, tries |-> tries,
   trail |-> trail]

GetLastAntemeridianCrossingTimeMS(c, o, now, tle, timeMS) ==
  Eval(ParseTLE(c, tle), LAMBDA parsedTLE :
    Eval(GetCachedLastAntemeridianCrossingTimeMS(parsedTLE.cache, parsedTLE.val, timeMS),
         LAMBDA cachedVal :
      IF cachedVal.threw THEN Failed(cachedVal.cache, 0, 0, <<>>)
      ELSE IF cachedVal.val.hit THEN Found(cachedVal.val.time, cachedVal.cache, 0, 0, <<>>)
      ELSE
        Eval(While([step |-> 1000 * 60 * 10,
                    lastLatLon |-> <<>>,
                    curTimeMS |-> IF timeMS = 0 THEN now ELSE timeMS,
                    isDone |-> FALSE,
                    tries |-> 0,
                    threw |-> FALSE,
                    cache |-> cachedVal.cache,
                    prop |-> 0,
                    trail |-> <<>>],
                   maxTries + 1, o, now, parsedTLE.val), LAMBDA s :
          IF s.threw THEN Failed(s.cache, s.prop, s.tries + 1, s.trail)
          ELSE
            LET couldNotFindCrossing == s.tries - 1 = maxTries
                crossingTime == IF couldNotFindCrossing THEN -1 ELSE s.curTimeMS
                tleStr == KeyOf(Join(parsedTLE.val.arr))
                before == IF tleStr \in DOMAIN s.cache.antemeridianCrossings
                            THEN s.cache.antemeridianCrossings[tleStr]
                            ELSE Crossings(<<>>)
                after == IF couldNotFindCrossing THEN NoCrossing
                         ELSE Crossings(Append(before.times, crossingTime))
            IN  Found(crossingTime,
                      [s.cache EXCEPT !.antemeridianCrossings = Put(@, tleStr, after)],
                      s.prop, s.tries, s.trail))))

\* An orbit that stays over 50 degrees east, and never nears the antemeridian.
Geostationary == [kind |-> "fixed", lng |-> 50 * DEG]

SearchOrbits == {ISSOrbit, Geostationary}

\* The element sets searched: the ISS set as a string, and a record with a
\* corrupted line-number column.
SearchInputs ==
  {StringInput(JoinNL(ValidTLE)),
   Record(Unknown, <<Line1BadNumber, ISSLine2>>)}

\* The reference times: none, and one that is orbits before the clock.
SearchTimes == {0, 1480000000}

\* A search with no reference time adds a crossing time on every call: the
\* searches stop once a TLE has MaxHistory crossing times.
MaxHistory == 2

HistoryLength(c, tle) ==
  Eval(KeyOf(Join(ParseTLE(c, tle).val.arr)), LAMBDA tleStr :
    IF tleStr \in DOMAIN c.antemeridianCrossings
      THEN Len(c.antemeridianCrossings[tleStr].times)
      ELSE 0)

InitSearch ==
  /\ cache = EmptyCache
  /\ last = NoCall
  /\ orbit \in SearchOrbits
  /\ arg = <<>>
  /\ out = <<>>

getLastAntemeridianCrossingTimeMS ==
  \E tle \in SearchInputs, timeMS \in SearchTimes :
    /\ HistoryLength(cache, tle) < MaxHistory
    /\ \E r \in {GetLastAntemeridianCrossingTimeMS(cache, orbit, Now, tle, timeMS)} :
        /\ cache' = r.cache
        /\ last' = Call("getLastAntemeridianCrossingTimeMS", tle, timeMS, r, r.tries)
        /\ UNCHANGED <<orbit, arg, out>>

NextSearch == getLastAntemeridianCrossingTimeMS \/ getLatLon

SpecSearch == InitSearch /\ [][NextSearch]_vars

(***************************************************************************)
(* Searches of successive orbits on one engine                             *)
(***************************************************************************)

\* The ISS set with a mean motion of 16 revolutions a day, an orbit of
\* 5,400,000 ms, the period of ISSOrbit: the checksum of line 2 stays 0.
SyncTLE ==
  <<ISSLine1,
    SetCols(ISSLine2, 52, <<"1", "6", ".", "0", "0", "0", "0", "0", "0", "0", "0">>)>>

\* An orbit over the poles, of 100 minutes.
PolarOrbit == [kind |-> "polar", period |-> 6000000, lng |-> 0]

\* The reference times: one, the ones one and two orbits of SyncTLE later,
\* and one in between.
CrossingTimes ==
  {1479700000, 1479700000 + 3000000, 1479700000 + 5400000, 1479700000 + 2 * 5400000}

InitCrossings ==
  /\ cache = EmptyCache
  /\ last = NoCall
  /\ orbit \in {ISSOrbit, PolarOrbit}
  /\ arg = <<>>
  /\ out = <<>>

\* A search for one of two element sets that differ in the mean motion of
\* line 2 only; out is the trail of the search.
lastCrossing ==
  \E tle \in {Record(Unknown, SyncTLE), Record(Unknown, ValidTLE)}, timeMS \in CrossingTimes :
    /\ HistoryLength(cache, tle) < MaxHistory
    /\ \E r \in {GetLastAntemeridianCrossingTimeMS(cache, orbit, Now, tle, timeMS)} :
        /\ cache' = r.cache
        /\ last' = Call("lastCrossing", tle, timeMS, r, r.tries)
        /\ out' = <<r.trail>>
        /\ UNCHANGED <<orbit, arg>>

SpecCrossings == InitCrossings /\ [][lastCrossing]_vars

(***************************************************************************)
(* getOrbitTimeMS, getOrbitTrack, getGroundTrackLatLng                     *)
(***************************************************************************)

\* An argument that may be left out or be no number: a number has its value
\* in num, false is the boolean of num 0, undefined and null have num 0.
Value(type, num) == [type |-> type, num |-> num]

\* A test that takes only an argument left out for unset.
OnlyUndefined(v) == v.type = "undefined"

\* !v
Falsy(v) == v.type \in {"undefined", "null"} \/ v.num = 0

\* (x / d).toFixed(): the sign, and the magnitude rounded half up.
ToFixed(x, d) == <<x < 0, (Abs(x) + d \div 2) \div d>>

\* parseInt(MS_IN_A_DAY / getMeanMotion(tle), 10), with the quotient of
\* OrbitLength.
GetOrbitTimeMS(c, tle) ==
  Eval(Getter(c, tle, "line2", "meanMotion"), LAMBDA m :
    IF m.threw THEN Threw(m.cache) ELSE Returned(OrbitLength(m.val), m.cache))

\* Passes of the track walker the model follows in one call.
TrackFuel == 4096

\* One pass of the body of the while loop of getOrbitTrack.  s holds the
\* locals, the cache, the passes so far and whether getLatLonArr threw.
TrackBody(s, o, now, TLEArr, startTimeMS, maxTimeMS) ==
  Eval(GetLatLonArr(s.cache, o, now, ArrayInput(TLEArr), s.curTimeMS), LAMBDA curLatLon :
    IF curLatLon.threw THEN [s EXCEPT !.threw = TRUE, !.cache = curLatLon.cache]
    ELSE
      LET crosses ==
            CrossesAntemeridian(IF s.lastLatLon = <<>> THEN 0 ELSE s.lastLatLon[2],
                                curLatLon.val[2])
          curTimeMS == IF crosses THEN s.curTimeMS - s.stepMSCopy
                       ELSE s.curTimeMS + s.stepMSCopy
      IN  [stepMSCopy |-> IF crosses THEN 500 ELSE s.stepMSCopy,
           latLons |-> IF crosses THEN s.latLons ELSE Append(s.latLons, curLatLon.val),
           curTimeMS |-> curTimeMS,
           lastLatLon |-> IF crosses THEN s.lastLatLon ELSE curLatLon.val,
           isDone |-> \/ (crosses /\ s.stepMSCopy = 500)
                      \/ (~Falsy(maxTimeMS) /\ curTimeMS - startTimeMS > maxTimeMS.num),
           threw |-> FALSE,
           cache |-> curLatLon.cache,
           passes |-> s.passes + 1])

\* The while loop, for at most n passes.
RECURSIVE Walk(_, _, _, _, _, _, _)
Walk(s, n, o, now, TLEArr, startTimeMS, maxTimeMS) ==
  IF s.isDone \/ s.threw \/ n = 0 THEN s
  ELSE IF n = 1 THEN TrackBody(s, o, now, TLEArr, startTimeMS, maxTimeMS)
  ELSE Eval(Walk(s, n \div 2, o, now, TLEArr, startTimeMS, maxTimeMS), LAMBDA t :
         Walk(t, n - n \div 2, o, now, TLEArr, startTimeMS, maxTimeMS))

\* What a track call did: its value and cache, the passes of its loop, the
\* time from the start to where the loop stood last, and whether the loop
\* ended within TrackFuel passes.
Walked(threw, val, c, passes, elapsed, done) ==
  [threw |-> threw, val |-> val, cache |-> c, passes |-> passes,
   elapsed |-> elapsed, done |-> done]

\* stepMS 0 is a step left out; maxTimeMS undefined is the default of
\* 6000000.
GetOrbitTrack(c, o, now, TLEArr, startTimeMS, stepMS, maxTimeMS) ==
  IF Falsy(startTimeMS) THEN Walked(FALSE, <<>>, c, 0, 0, TRUE)
  ELSE
    Eval(<<KeyOf(Join(TLEArr)), ToFixed(startTimeMS.num, 10000), stepMS>>, LAMBDA cacheKey :
      IF cacheKey \in DOMAIN c.getOrbitTrack
        THEN Walked(FALSE, c.getOrbitTrack[cacheKey], c, 0, 0, TRUE)
      ELSE
        Eval(Walk([stepMSCopy |-> IF stepMS = 0 THEN 1000 * 60 * 1 ELSE stepMS,
                   latLons |-> <<>>,
                   curTimeMS |-> startTimeMS.num,
                   lastLatLon |-> <<>>,
                   isDone |-> FALSE,
                   threw |-> FALSE,
                   cache |-> c,
                   passes |-> 0],
                  TrackFuel, o, now, TLEArr, startTimeMS.num,
                  IF maxTimeMS.type = "undefined" THEN Value("number", 6000000)
                  ELSE maxTimeMS), LAMBDA s :
          IF s.threw \/ ~s.isDone
            THEN Walked(s.threw, <<>>, s.cache, s.passes,
                        s.curTimeMS - startTimeMS.num, s.isDone)
          ELSE Walked(FALSE, s.latLons,
                      [s.cache EXCEPT !.getOrbitTrack = Put(@, cacheKey, s.latLons)],
                      s.passes, s.curTimeMS - startTimeMS.num, TRUE)))

\* What a ground track call did: its value and cache, whether the search at
\* the query time found a crossing, the start times of the tracks it built and
\* what each of them did.
Assembled(threw, val, c, found, starts, walks) ==
  [threw |-> threw, val |-> val, cache |-> c, found |-> found,
   starts |-> starts, walks |-> walks, done |-> \A i \in DOMAIN walks : walks[i].done]

\* The tracks from the start times after the first i, after the tracks walks.
RECURSIVE OrbitLatLons(_, _, _, _, _, _, _, _)
OrbitLatLons(c, o, now, TLEArr, orbitStartTimes, stepMS, i, walks) ==
  IF i = Len(orbitStartTimes) \/ (i > 0 /\ (walks[i].threw \/ ~walks[i].done))
    THEN [cache |-> c, walks |-> walks]
  ELSE Eval(GetOrbitTrack(c, o, now, TLEArr, Value("number", orbitStartTimes[i + 1]),
                          stepMS, Value("boolean", 0)), LAMBDA w :
         OrbitLatLons(w.cache, o, now, TLEArr, orbitStartTimes, stepMS, i + 1,
                      Append(walks, [w EXCEPT !.cache = 0])))

\* optionalTimeMS 0 is a time left out.
GetGroundTrackLatLng(c, o, now, tle, stepMS, optionalTimeMS) ==
  LET timeMS == IF optionalTimeMS = 0 THEN now ELSE optionalTimeMS
      timeS == ToFixed(timeMS, 1000)
  IN  Eval(ParseTLE(c, tle), LAMBDA parsedTLE :
        IF parsedTLE.threw \/ Len(parsedTLE.val.arr) < 2
          THEN Assembled(TRUE, <<>>, parsedTLE.cache, FALSE, <<>>, <<>>)
        ELSE
          Eval(GetOrbitTimeMS(parsedTLE.cache, tle), LAMBDA orbitTimeMS :
          Eval(GetLastAntemeridianCrossingTimeMS(orbitTimeMS.cache, o, now,
                                                 parsedTLE.val, timeMS), LAMBDA cur :
            LET tleStrTrimmed == Substr(parsedTLE.val.arr[2], 0, 30)
                curOrbitStartMS == cur.val
                foundCrossing == curOrbitStartMS # -1
                TLEArr == parsedTLE.val.arr
            IN  IF orbitTimeMS.threw \/ cur.threw
                  THEN Assembled(TRUE, <<>>, cur.cache, FALSE, <<>>, <<>>)
                ELSE IF ~foundCrossing THEN
                  Eval(<<tleStrTrimmed, stepMS, timeS>>, LAMBDA cacheKey :
                    IF cacheKey \in DOMAIN cur.cache.getGroundTrackLatLng
                      THEN Assembled(FALSE, cur.cache.getGroundTrackLatLng[cacheKey],
                                     cur.cache, FALSE, <<>>, <<>>)
                    ELSE
                      Eval(GetOrbitTrack(cur.cache, o, now, TLEArr, Value("number", timeMS),
                                         600000, Value("number", 86400000)), LAMBDA w :
                        Assembled(w.threw, <<w.val>>,
                                  IF w.threw \/ ~w.done THEN w.cache
                                  ELSE [w.cache EXCEPT !.getGroundTrackLatLng =
                                                         Put(@, cacheKey, <<w.val>>)],
                                  FALSE, <<timeMS>>, <<[w EXCEPT !.cache = 0, !.val = 0]>>)))
                ELSE
                  Eval(<<tleStrTrimmed, stepMS, ToFixed(curOrbitStartMS, 1000)>>,
                       LAMBDA cacheKey :
                    IF cacheKey \in DOMAIN cur.cache.getGroundTrackLatLng
                      THEN Assembled(FALSE, cur.cache.getGroundTrackLatLng[cacheKey],
                                     cur.cache, TRUE, <<>>, <<>>)
                    ELSE
                      Eval(GetLastAntemeridianCrossingTimeMS(cur.cache, o, now, tle,
                                                             curOrbitStartMS - 10000),
                           LAMBDA lastOrbitStartMS :
                      Eval(GetLastAntemeridianCrossingTimeMS(
                             lastOrbitStartMS.cache, o, now, tle,
                             IF orbitTimeMS.val = NaN THEN 0
                             ELSE curOrbitStartMS + orbitTimeMS.val + (1000 * 60 * 30)),
                           LAMBDA nextOrbitStartMS :
                        IF lastOrbitStartMS.threw \/ nextOrbitStartMS.threw
                          THEN Assembled(TRUE, <<>>, nextOrbitStartMS.cache, TRUE, <<>>, <<>>)
                        ELSE
                          Eval(<<lastOrbitStartMS.val, curOrbitStartMS, nextOrbitStartMS.val>>,
                               LAMBDA orbitStartTimes :
                          Eval(OrbitLatLons(nextOrbitStartMS.cache, o, now, TLEArr,
                                            orbitStartTimes, stepMS, 0, <<>>), LAMBDA t :
                            LET orbitLatLons == [i \in DOMAIN t.walks |-> t.walks[i].val]
                                threw == \E i \in DOMAIN t.walks : t.walks[i].threw
                                done == \A i \in DOMAIN t.walks : t.walks[i].done
                            IN  Assembled(threw, orbitLatLons,
                                          IF threw \/ ~done THEN t.cache
                                          ELSE [t.cache EXCEPT !.getGroundTrackLatLng =
                                                                 Put(@, cacheKey, orbitLatLons)],
                                          TRUE, orbitStartTimes,
                                          [i \in DOMAIN t.walks |->
                                             [t.walks[i] EXCEPT !.val = 0]])))))))))

(***************************************************************************)
(* The engine building tracks                                              *)
(***************************************************************************)

\* An orbit whose ground track passes the antemeridian every ten days.
SlowOrbit == [kind |-> "periodic", period |-> 864000000, phase |-> 100000000]

\* The step the tracks are asked with.
TrackStepMS == 600000

\* The query times, an orbit of SyncTLE apart, and the start times given to
\* getOrbitTrack: unset ones and a time.
TrackTimes == {130000000, 130000000 + 5400000}
StartTimes ==
  {Value("undefined", 0), Value("null", 0), Value("boolean", 0), Value("number", 0),
   Value("number", 130000000)}

InitTrack ==
  /\ cache = EmptyCache
  /\ last = NoCall
  /\ orbit \in {ISSOrbit, Geostationary, SlowOrbit}
  /\ arg = <<>>
  /\ out = <<>>

\* out is what the call did.
getOrbitTrack ==
  \E startTimeMS \in StartTimes :
    \E r \in {GetOrbitTrack(cache, orbit, Now, SyncTLE, startTimeMS, TrackStepMS,
                            Value("undefined", 0))} :
        /\ cache' = r.cache
        /\ last' = Call("getOrbitTrack", Record(Unknown, SyncTLE), startTimeMS, r, r.passes)
        /\ out' = <<[r EXCEPT !.cache = 0, !.val = 0]>>
        /\ UNCHANGED <<orbit, arg>>

getGroundTrackLatLng ==
  \E tle \in {Record(Unknown, SyncTLE)}, optionalTimeMS \in TrackTimes :
    \E r \in {GetGroundTrackLatLng(cache, orbit, Now, tle, TrackStepMS, optionalTimeMS)} :
        /\ cache' = r.cache
        /\ last' = Call("getGroundTrackLatLng", tle, Value("number", optionalTimeMS), r, 0)
        /\ out' = <<[r EXCEPT !.cache = 0, !.val = 0]>>
        /\ UNCHANGED <<orbit, arg>>

NextTrack == getOrbitTrack \/ getGroundTrackLatLng

SpecTrack == InitTrack /\ [][NextTrack]_vars

(***************************************************************************)
(* The engine answering getSatelliteInfo                                   *)
(***************************************************************************)

\* A call for one of two element sets with the same first 30 characters, at
\* no timestamp or at one, for no observer or for one: the time of the call is
\* written <<timestamp, observer>>.
getSatelliteInfo ==
  \E tle \in {Record(Unknown, ValidTLE), StringInput(JoinNL(SyncTLE))},
     timestamp \in {0} \cup Timestamps,
     observer \in {<<0, 0, 0>>, <<40000, -75000, 100>>} :
    \E r \in {GetSatelliteInfo(cache, orbit, Now, tle, timestamp, observer)} :
        /\ cache' = r.cache
        /\ last' = Call("getSatelliteInfo", tle, <<timestamp, observer>>, r, r.prop)
        /\ UNCHANGED <<orbit, arg, out>>

NextInfo == getSatelliteInfo \/ getLatLon

SpecInfo == Init /\ [][NextInfo]_vars

(***************************************************************************)
(* The parser given values of every type                                   *)
(***************************************************************************)

\* A number, a boolean, null, undefined and an object with no arr attribute.
OtherInputs ==
  {OtherInput(kind) : kind \in {"number", "boolean", "null", "undefined", "object"}}

\* parseTLE called with these, with a record, and with strings and arrays, one
\* of them the string undefined.  out holds the error thrown, if any, and the
\* record returned, if any.
parseValue ==
  \E inputTLE \in OtherInputs \cup
       {Record(ISSName, ValidTLE),
        StringInput(UndefinedText),
        StringInput(JoinNL(ValidTLE)),
        StringInput(JoinNL(<<Line1Other, ISSLine2>>)),
        ArrayInput(ValidTLE),
        ArrayInput(<<ISSName, ISSLine1, ISSLine2>>)} :
    \E r \in {ParseTLE(cache, inputTLE)} :
        /\ cache' = r.cache
        /\ last' = Call("parseTLE", inputTLE, 0, [threw |-> r.threw, val |-> FALSE], 0)
        /\ out' = <<IF r.threw THEN r.error ELSE "",
                    IF r.threw THEN <<>> ELSE <<r.val>>>>
        /\ UNCHANGED <<orbit, arg>>

SpecValue == Init /\ [][parseValue]_vars

(***************************************************************************)
(* The field schema                                                        *)
(***************************************************************************)

\* A getter that reads one column more than its field has.
WideDescriptor(tleLine, prop) == [tleLines[tleLine][prop] EXCEPT !.length = @ + 1]

\* tleLines[tleLine][prop], which gives a getter its start and length.
Descriptor(tleLine, prop) == tleLines[tleLine][prop]

\* The getters of two fields of one line are built: arg names the line and the
\* fields, out holds the descriptors the getters read with.
createTLEValGetter ==
  \E tleLine \in DOMAIN tleLines :
    \E prop \in DOMAIN tleLines[tleLine], other \in DOMAIN tleLines[tleLine] :
        /\ arg' = <<tleLine, prop, other>>
        /\ out' = <<Descriptor(tleLine, prop), Descriptor(tleLine, other)>>
        /\ last' = [NoCall EXCEPT !.op = "createTLEValGetter"]
        /\ UNCHANGED <<cache, orbit>>

SpecSchema == Init /\ [][createTLEValGetter]_vars

(***************************************************************************)
(* The engine asked for tracks with a maximum duration                     *)
(***************************************************************************)

\* The step of these tracks, their start times, two of them within ten
\* seconds, and their maximum durations.
ShortStepMS == 60000
ShortStartTimes == {1484940000, 1484940000 + 4000, 1484940000 + 600000}
MaxTimes == {120000, 600000}

InitShortTrack ==
  /\ cache = EmptyCache
  /\ last = NoCall
  /\ orbit \in {ISSOrbit, PolarOrbit}
  /\ arg = <<>>
  /\ out = <<>>

\* getOrbitTrack called with a maximum duration: arg holds the step and the
\* maximum duration, out the track.
orbitTrack ==
  \E startTimeMS \in ShortStartTimes, maxTimeMS \in MaxTimes :
    \E r \in {GetOrbitTrack(cache, orbit, Now, SyncTLE, Value("number", startTimeMS),
                            ShortStepMS, Value("number", maxTimeMS))} :
        /\ cache' = r.cache
        /\ last' = Call("orbitTrack", Record(Unknown, SyncTLE), startTimeMS,
                        [threw |-> r.threw, val |-> FALSE], r.passes)
        /\ arg' = <<ShortStepMS, maxTimeMS>>
        /\ out' = r.val
        /\ UNCHANGED orbit

SpecShortTrack == InitShortTrack /\ [][orbitTrack]_vars

(***************************************************************************)
(* Searches on an engine whose orbit seldom crosses                        *)
(***************************************************************************)

\* An orbit whose ground track passes the antemeridian every ten days, once
\* between the first two reference times.
RareOrbit == [kind |-> "periodic", period |-> 864000000, phase |-> 616700000]

\* One that passes it 987 ten-minute steps before the first reference time: a
\* search from there ends its bisection on the pass after maxTries.
EdgeOrbit == [kind |-> "periodic", period |-> 864000000, phase |-> 887500000]

InitHistory ==
  /\ cache = EmptyCache
  /\ last = NoCall
  /\ orbit \in {ISSOrbit, RareOrbit, EdgeOrbit}
  /\ arg = <<>>
  /\ out = <<>>

SpecHistory == InitHistory /\ [][lastCrossing]_vars

(***************************************************************************)
(* What the specification says of a checksum and of a valid record          *)
(***************************************************************************)

\* The sum of the decimal digits of s[lo..hi] plus the number of its '-'.
RECURSIVE DigitsAndMinus(_, _, _)
DigitsAndMinus(s, lo, hi) ==
  IF lo > hi THEN 0
  ELSE IF lo = hi
    THEN (IF s[lo] \in Digits THEN DigitVal(s[lo]) ELSE IF s[lo] = "-" THEN 1 ELSE 0)
  ELSE DigitsAndMinus(s, lo, (lo + hi) \div 2) + DigitsAndMinus(s, (lo + hi) \div 2 + 1, hi)

\* The modulo-10 checksum of the line without its final character.
ExpectedChecksum(line) == DigitsAndMinus(line, 1, Len(line) - 1) % 10

\* Line i has i in its first column and its own checksum in column 68.
LineIsValid(line, i) ==
  /\ Len(line) >= 69
  /\ line[1] \in Digits /\ DigitVal(line[1]) = i
  /\ line[69] \in Digits /\ DigitVal(line[69]) = ExpectedChecksum(line)

MeetsValidity(rec) ==
  /\ Len(rec.arr) = 2
  /\ \A i \in 1..2 : LineIsValid(rec.arr[i], i)

\* The record a raw input denotes: what an engine with an empty cache parses.
Denoted(input) == ParseTLE(EmptyCache, input).val

(***************************************************************************)
(* Claims on the engine                                                    *)
(***************************************************************************)

\* C1: isValidTLE(record) returns true if and only if the record has exactly
\* two lines, line i has i in its first column and its computed checksum in
\* column 68, also after a valid TLE with the same first 30 characters was
\* validated.
C1_ValidIffConditions ==
  (last.op = "isValidTLE" /\ last.input.kind = "record" /\ ~last.threw)
    => (last.val <=> MeetsValidity(last.input))

\* C2: after any earlier calls, parsing a raw string or array returns the
\* name and lines that an engine with an empty cache returns for it.
C2_ParseCacheTransparent ==
  (last.op = "parseTLE" /\ last.input.kind \in {"string", "array"} /\ ~last.threw)
    => (/\ last.val.name = Denoted(last.input).name
        /\ last.val.arr = Denoted(last.input).arr)

\* The lines a raw input yields before the name is taken off.
RawLines(input) == IF input.kind = "array" THEN input.arr ELSE Split(input.str)

IsTrimmed(line) == line = <<>> \/ (line[1] \notin Whitespace /\ line[Len(line)] \notin Whitespace)

C4_IsValidNeverThrows ==
  last.op = "isValidTLE" => ~last.threw

\* C5: getLatLon throws, and the propagator is not run, for a TLE that does
\* not meet the validity conditions, after any earlier calls.
C5_InvalidTLEThrows ==
  (last.op = "getLatLon" /\ ~MeetsValidity(Denoted(last.input)))
    => (last.threw /\ last.prop = 0)

(***************************************************************************)
(* Claims on the pure functions                                            *)
(***************************************************************************)

\* C6: for every line with a non-empty body, whatever its characters and its
\* first character, tleLineChecksum returns the sum of the digits of the body
\* plus the number of its '-', modulo 10.
C6_ChecksumIsDigitSum ==
  (out # <<>> /\ Len(arg) >= 2)
    => (~out[1].threw /\ out[1].val = ExpectedChecksum(arg))

\* The value sign * M * 10^(E - L) of a sign, L mantissa digits of value M and
\* a signed exponent digit E.
AssumedDecimal(str) ==
  LET L == Len(str) - 3
      M == DigitsValue(str, 2, L + 1)
      E == IF str[L + 2] = "-" THEN 0 - DigitVal(str[L + 3]) ELSE DigitVal(str[L + 3])
  IN  Sci(IF str[1] = "-" THEN 0 - M ELSE M, E - L)

\* C7: a sign or space, L mantissa digits of value M (leading zeros allowed)
\* and a signed exponent E decode to sign * M * 10^(E - L).
C7_DecimalPointBeforeMantissa ==
  out # <<>> => out[1] = AssumedDecimal(arg)

\* startOfYear(1900 + yy or 2000 + yy) + floor((epochDay - 1) * 86,400,000).
ExpectedEpoch(yy, day) ==
  Timestamp(DaysToYearStart(IF yy >= 57 THEN 1900 + yy ELSE 2000 + yy)
              + DigitsValue(day, 1, 3) - 1,
            FractionMS(DigitSeq(day, 5, 12)))

\* C8: for every two-digit year, 00 included, getEpochTimestamp is the start
\* of 1900+yy (yy in 57..99) or 2000+yy (yy in 0..56) plus the ms of the epoch
\* day, whatever the current year.
C8_EpochYearPivot ==
  out # <<>> => out[1] = ExpectedEpoch(arg.yy, arg.day)

DifferentSigns(a, b) == (a < 0 /\ b > 0) \/ (a > 0 /\ b < 0)

\* C9: crossesAntemeridian(a, b) is true if and only if a and b have different
\* signs and one of |a|, |b| is greater than 100 degrees.
C9_CrossIffSignsDifferAndOneFar ==
  out # <<>>
    => (out[1] <=> (/\ DifferentSigns(arg[1], arg[2])
                    /\ (Abs(arg[1]) > 100 * DEG \/ Abs(arg[2]) > 100 * DEG)))

(***************************************************************************)
(* Claims on the crossing search                                           *)
(***************************************************************************)

\* The key of the crossing history of an input, in an engine with cache c.
HistoryKey(c, tle) == KeyOf(Join(ParseTLE(c, tle).val.arr))

HoldsSentinel(c, tleStr) ==
  tleStr \in DOMAIN c.antemeridianCrossings /\ c.antemeridianCrossings[tleStr].sentinel

\* C10: a search that ends at the iteration cap stores the sentinel -1 as the
\* TLE's crossing history; a stored sentinel stays whatever is called next; and
\* a search for a TLE whose history holds it, for any reference time, returns
\* -1 without asking for a position and without throwing.
C10_SentinelIsFinal ==
  [][/\ \A tleStr \in DOMAIN cache.antemeridianCrossings :
          HoldsSentinel(cache, tleStr) => HoldsSentinel(cache', tleStr)
     /\ last'.op = "getLastAntemeridianCrossingTimeMS"
          => /\ (~last'.threw /\ last'.prop = maxTries + 1)
                  => (/\ last'.val = -1
                      /\ HoldsSentinel(cache', HistoryKey(cache', last'.input)))
             /\ HoldsSentinel(cache, HistoryKey(cache, last'.input))
                  => (/\ ~last'.threw
                      /\ last'.val = -1
                      /\ last'.prop = 0
                      /\ cache'.getSatelliteInfo = cache.getSatelliteInfo)]_vars

\* C10 witness: a search answered -1 with no position asked, from the sentinel
\* an earlier search left after maxTries + 1 positions.
C10_Witness ==
  /\ last.op = "getLastAntemeridianCrossingTimeMS"
  /\ ~last.threw
  /\ last.val = -1
  /\ last.prop = 0
  /\ HoldsSentinel(cache, HistoryKey(cache, last.input))
  /\ Cardinality(DOMAIN cache.getSatelliteInfo) >= maxTries + 1

(***************************************************************************)
(* Claims on the searches of successive orbits                             *)
(***************************************************************************)

\* The crossing predicate: the signs differ and one longitude is beyond 100
\* degrees.
GenuineCrossing(a, b) ==
  DifferentSigns(a, b) /\ (Abs(a) > 100 * DEG \/ Abs(b) > 100 * DEG)

\* C11: a fresh search that returns r other than -1 returns r at or before
\* its reference time; the longitude sampled at r and the last one sampled,
\* one final step before r, satisfy the crossing predicate; and no two
\* successive samples at or after r satisfy it.
C11_ReturnsLastCrossing ==
  (last.op = "lastCrossing" /\ ~last.threw /\ last.prop > 0 /\ last.val # -1)
    => LET trail == out[1]
           n == Len(trail)
           r == last.val
       IN  /\ r <= last.time
           /\ trail[n][1] < r
           /\ \E i \in 1..n : trail[i][1] = r /\ GenuineCrossing(trail[i][2], trail[n][2])
           /\ \A i \in 1..(n - 1) :
                (trail[i + 1][1] < trail[i][1] /\ trail[i + 1][1] >= r)
                  => ~GenuineCrossing(trail[i][2], trail[i + 1][2])

\* C12: a search stops as soon as its step is below 500 ms or the iteration
\* cap is reached: it asks for at most maxTries = 1000 positions.
C12_AtMostMaxTries ==
  last.op = "getLastAntemeridianCrossingTimeMS" => last.prop <= maxTries

(***************************************************************************)
(* Claims on the tracks                                                    *)
(***************************************************************************)

\* C13: every getOrbitTrack and getGroundTrackLatLng call ends, and no track
\* is walked for longer than a maximum duration and a step past its start:
\* 24 hours for the track of an orbit with no crossing, 24 hours at the very
\* most for every other track, the three of the ground track included.
C13_TracksStopAtMaxDuration ==
  /\ last.op = "getOrbitTrack"
       => (out[1].done /\ out[1].elapsed <= MS_IN_A_DAY + TrackStepMS)
  /\ last.op = "getGroundTrackLatLng"
       => \A i \in DOMAIN out[1].walks :
            /\ out[1].walks[i].done
            /\ out[1].walks[i].elapsed <= MS_IN_A_DAY + TrackStepMS

\* C14: a ground track is three tracks, of the previous, the current and the
\* next orbit in this order, when the search at the query time finds a
\* crossing; it is one track from the query time when that search returns -1,
\* as it does for a TLE whose history is the sentinel.
C14_TripleOrSingle ==
  [][(last'.op = "getGroundTrackLatLng" /\ ~last'.threw)
       => LET starts == out'[1].starts
          IN  /\ out'[1].found
                   => /\ Len(last'.val) = 3
                      /\ starts # <<>>
                           => /\ Len(starts) = 3
                              /\ starts[1] # -1 /\ starts[3] # -1
                              /\ starts[1] < starts[2] /\ starts[2] < starts[3]
                              /\ starts[2] <= last'.time.num
              /\ ~out'[1].found
                   => /\ Len(last'.val) = 1
                      /\ starts # <<>> => starts = <<last'.time.num>>
              /\ HoldsSentinel(cache, HistoryKey(cache, last'.input))
                   => Len(last'.val) = 1]_vars

\* The orbital period of an input, 1440 / meanMotion minutes, in ms.
OrbitalPeriod(tle) == OrbitLength(Getter(EmptyCache, tle, "line2", "meanMotion").val)

\* C15: for a TLE whose longitude signal has one crossing per orbital period
\* P, a search with reference time T followed by one with T + P return r1 and
\* r2 with r1 < r2 and r2 - r1 within the last step of the search, 625 ms, of
\* P: the second does not return the crossing of the first.
C15_NextOrbitNextCrossing ==
  [][(/\ last.op = "lastCrossing" /\ last'.op = "lastCrossing"
      /\ last'.input = last.input
      /\ orbit.kind = "periodic" /\ orbit.period = OrbitalPeriod(last.input)
      /\ last'.time = last.time + OrbitalPeriod(last.input)
      /\ ~last.threw /\ last.val # -1)
       => /\ ~last'.threw
          /\ last.val < last'.val
          /\ Abs(last'.val - last.val - OrbitalPeriod(last.input)) <= 625]_vars

\* The crossing times kept for an input in an engine with cache c.
History(c, tle) ==
  IF HistoryKey(c, tle) \in DOMAIN c.antemeridianCrossings
    THEN c.antemeridianCrossings[HistoryKey(c, tle)]
    ELSE Crossings(<<>>)

\* C16: a search with reference time T for a TLE whose history holds a
\* crossing c with 0 < T - c < orbital period returns a crossing of the
\* history within that bound, asks for no position and leaves the history as
\* it is; and a crossing returned with no position asked is within that bound.
C16_CachedWithinOneOrbit ==
  [][(last'.op = "lastCrossing" /\ ~History(cache, last'.input).sentinel)
       => LET T == last'.time
              P == OrbitalPeriod(last'.input)
              times == History(cache, last'.input).times
              Within(c) == 0 < T - c /\ T - c < P
          IN  /\ (\E i \in DOMAIN times : Within(times[i]))
                   => /\ ~last'.threw
                      /\ \E i \in DOMAIN times : times[i] = last'.val
                      /\ Within(last'.val)
                      /\ last'.prop = 0
                      /\ cache'.antemeridianCrossings = cache.antemeridianCrossings
              /\ (~last'.threw /\ last'.prop = 0) => Within(last'.val)]_vars

(***************************************************************************)
(* Claims on getSatelliteInfo                                              *)
(***************************************************************************)

\* The cache key of a getSatelliteInfo call.
InfoKey(call) ==
  <<IF call.time[1] = 0 THEN Now ELSE call.time[1],
    KeyOf(Join(Denoted(call.input).arr)),
    call.time[2]>>

\* C17: a getSatelliteInfo call made a second time with the same TLE, the
\* same timestamp other than 0 and the same observer returns what the first
\* returned and does not run the propagator: every call that returns leaves
\* its result under its key, no step changes or removes what a key holds, and
\* a call whose key holds a result returns it with no propagator run.
C17_SecondCallFromCache ==
  [][/\ \A k \in DOMAIN cache.getSatelliteInfo :
          /\ k \in DOMAIN cache'.getSatelliteInfo
          /\ cache'.getSatelliteInfo[k] = cache.getSatelliteInfo[k]
     /\ (last'.op = "getSatelliteInfo" /\ last'.time[1] # 0)
          => /\ ~last'.threw
             /\ cache'.getSatelliteInfo[InfoKey(last')] = last'.val
             /\ InfoKey(last') \in DOMAIN cache.getSatelliteInfo
                  => /\ last'.val = cache.getSatelliteInfo[InfoKey(last')]
                     /\ last'.prop = 0]_vars

\* C17 witness: a call at a timestamp, for an observer, answered with no
\* propagator run.
C17_Witness ==
  /\ last.op = "getSatelliteInfo"
  /\ last.time[1] # 0 /\ last.time[2] # <<0, 0, 0>>
  /\ ~last.threw
  /\ last.prop = 0
  /\ last.val = cache.getSatelliteInfo[InfoKey(last)]

\* C18: getOrbitTrack with a start time that is undefined, null, 0 or false
\* returns an empty sequence, asks for no position and leaves the cache as it
\* is.
C18_NoStartNoTrack ==
  [][(/\ last'.op = "getOrbitTrack"
      /\ (last'.time.type \in {"undefined", "null"} \/ last'.time.num = 0))
       => /\ ~last'.threw
          /\ last'.val = <<>>
          /\ last'.prop = 0
          /\ cache' = cache]_vars

\* C18 witness: a call with the start time null, on an engine that has built
\* tracks, answered by the empty sequence.
C18_Witness ==
  /\ last.op = "getOrbitTrack"
  /\ last.time.type = "null"
  /\ last.val = <<>>
  /\ last.prop = 0
  /\ DOMAIN cache.getGroundTrackLatLng # {}

\* C19: parseTLE throws the error "TLE input is invalid" and leaves the cache
\* as it is for a number, a boolean, null, undefined and an object with no arr
\* attribute, and returns an already-parsed record as it is.
C19_InvalidInputRejected ==
  [][last'.op = "parseTLE" =>
       /\ last'.input \in OtherInputs =>
            /\ last'.threw
            /\ out' = <<InvalidInput, <<>>>>
            /\ cache' = cache
       /\ last'.input.kind = "record" =>
            /\ ~last'.threw
            /\ out'[2] = <<last'.input>>
            /\ cache' = cache]_vars

\* C19 as the code has it for null and undefined: the call fails with a
\* TypeError and the cache is as it was.
C19_NullThrowsTypeError ==
  [][(last'.op = "parseTLE" /\ last'.input.kind \in {"null", "undefined"}) =>
       /\ last'.threw
       /\ out' = <<TypeError, <<>>>>
       /\ cache' = cache]_vars

\* C19 as the code has it for a number, a boolean and an object with no arr
\* attribute: the invalid-input error unless the cache holds a record under
\* the text undefined, and then that record.
C19_OtherThrowsUnlessCached ==
  [][(last'.op = "parseTLE" /\ last'.input.kind \in {"number", "boolean", "object"}) =>
       /\ cache' = cache
       /\ IF UndefinedText \in DOMAIN cache.parseTLE
            THEN ~last'.threw /\ out'[2] = <<cache.parseTLE[UndefinedText]>>
            ELSE last'.threw /\ out' = <<InvalidInput, <<>>>>]_vars

\* The columns [start, start + length) of a field descriptor.
Columns(desc) == desc.start .. (desc.start + desc.length - 1)

\* C20: within a line the column ranges of two different fields have no column
\* in common, and every range lies in columns 0..68.
C20_FieldsDisjointInLine ==
  last.op = "createTLEValGetter" =>
    /\ Columns(out[1]) \subseteq 0..68
    /\ Columns(out[2]) \subseteq 0..68
    /\ arg[2] # arg[3] => Columns(out[1]) \cap Columns(out[2]) = {}

\* C20 witness: the satellite number and the classification of line 1, whose
\* ranges touch at column 7, and the checksum of line 2 in column 68.
C20_Witness ==
  \/ /\ last.op = "createTLEValGetter"
     /\ arg = <<"line1", "satelliteNumber", "classification">>
     /\ Columns(out[1]) = 2..6
     /\ Columns(out[2]) = 7..7
  \/ /\ last.op = "createTLEValGetter"
     /\ arg = <<"line2", "checksum2", "revNumberAtEpoch">>
     /\ Columns(out[1]) = 68..68

\* C21: in a track getOrbitTrack returns, no two consecutive positions have
\* longitudes of opposite signs with one of them beyond 100 degrees.
C21_NoCrossingInsideTrack ==
  (last.op = "orbitTrack" /\ ~last.threw)
    => \A i \in 1..(Len(out) - 1) : ~GenuineCrossing(out[i][2], out[i + 1][2])

\* C21 with the predicate as crossesAntemeridian computes it: no position of a
\* track crosses relative to the one before it.
C21_NoCodedCrossingInsideTrack ==
  (last.op = "orbitTrack" /\ ~last.threw)
    => \A i \in 1..(Len(out) - 1) : ~CrossesAntemeridian(out[i][2], out[i + 1][2])

\* C22: the three tracks of a ground track start at crossing times: the start
\* of the previous and of the next orbit's track is never -1, and the three
\* starts increase.
C22_AnchorsAreCrossings ==
  (/\ last.op = "getGroundTrackLatLng" /\ ~last.threw
   /\ out[1].found /\ Len(out[1].starts) = 3)
    => LET starts == out[1].starts
       IN  /\ -1 \notin {starts[1], starts[2], starts[3]}
           /\ starts[1] < starts[2]
           /\ starts[2] < starts[3]

\* C23: a getOrbitTrack call returns the track that an engine with an empty
\* cache returns for the same TLE, start time, step and maximum duration,
\* whatever was called before.
C23_TrackOfArgumentsOnly ==
  (last.op = "orbitTrack" /\ ~last.threw)
    => out = GetOrbitTrack(EmptyCache, orbit, Now, last.input.arr,
                           Value("number", last.time), arg[1],
                           Value("number", arg[2])).val

\* C23 for a call that finds nothing under its key: the track is the one of an
\* engine with an empty cache.
C23_FreshTrackOfArgumentsOnly ==
  (last.op = "orbitTrack" /\ ~last.threw /\ last.prop > 0)
    => out = GetOrbitTrack(EmptyCache, orbit, Now, last.input.arr,
                           Value("number", last.time), arg[1],
                           Value("number", arg[2])).val

\* C24: once the crossing history of a TLE holds a crossing time, a search
\* for that TLE leaves it as it is or appends one time to it: no time is
\* removed and the sentinel does not take the place of the list.
C24_HistoryOnlyGrows ==
  [][(/\ last'.op = "lastCrossing"
      /\ ~History(cache, last'.input).sentinel
      /\ History(cache, last'.input).times # <<>>)
       => /\ ~History(cache', last'.input).sentinel
          /\ \/ History(cache', last'.input).times = History(cache, last'.input).times
             \/ /\ Len(History(cache', last'.input).times)
                     = Len(History(cache, last'.input).times) + 1
                /\ SubSeq(History(cache', last'.input).times, 1,
                          Len(History(cache, last'.input).times))
                     = History(cache, last'.input).times]_vars

\* C24 without the sentinel: the times of a history are kept in their order
\* by every search that finds a crossing.
C24_FoundKeepsHistory ==
  [][(last'.op = "lastCrossing" /\ ~History(cache', last'.input).sentinel)
       => /\ Len(History(cache', last'.input).times)
               \in {Len(History(cache, last'.input).times),
                    Len(History(cache, last'.input).times) + 1}
          /\ SubSeq(History(cache', last'.input).times, 1,
                    Len(History(cache, last'.input).times))
               = History(cache, last'.input).times]_vars

\* C25: a search that samples positions returns -1, and leaves the sentinel as
\* the history, exactly when its loop ends with the step at 500 ms or more;
\* one whose step is below 500 ms at the end, on whatever pass, returns a
\* time other than -1 and leaves it as the last time of the history.
C25_SentinelIffNotConverged ==
  (last.op = "lastCrossing" /\ ~last.threw /\ last.prop > 0)
    => LET step == out[1][Len(out[1])][3]
           history == History(cache, last.input)
       IN  /\ (last.val = -1) <=> (step >= 500)
           /\ history.sentinel <=> (step >= 500)
           /\ step < 500 => (/\ history.times # <<>>
                             /\ history.times[Len(history.times)] = last.val)

\* C25 for the searches that end before the pass after maxTries.
C25_SentinelIffNotConvergedEarly ==
  (last.op = "lastCrossing" /\ ~last.threw /\ last.prop > 0 /\ last.prop <= maxTries)
    => LET step == out[1][Len(out[1])][3]
           history == History(cache, last.input)
       IN  /\ last.val # -1 /\ step < 500 /\ ~history.sentinel
           /\ history.times # <<>>
           /\ history.times[Len(history.times)] = last.val

\* The step a search enters pass i of its trail with.
StepBefore(trail, i) == IF i = 1 THEN 1000 * 60 * 10 ELSE trail[i - 1][3]

\* The time a search stands at after pass i of its trail: the time of the next
\* sample, or what a search that found a crossing returns.
TimeAfter(trail, i, val) == IF i < Len(trail) THEN trail[i + 1][1] ELSE val

\* C26 as stated: a pass that sees no crossing moves the time back by the step
\* and keeps the step; a pass that sees one moves the time forward by the step
\* and then halves the step, from 600000 to 300000, 150000 and so on.
C26_CrossingHalvesStep ==
  (last.op = "lastCrossing" /\ ~last.threw /\ last.prop > 0)
    => \A i \in 1..Len(out[1]) :
         LET pass == out[1][i]
             step == StepBefore(out[1], i)
         IN  /\ (i < Len(out[1]) \/ last.val # -1)
                  => TimeAfter(out[1], i, last.val)
                       = (IF pass[4] THEN pass[1] + step ELSE pass[1] - step)
             /\ pass[3] = (IF pass[4] THEN step \div 2 ELSE step)

\* C26, amended: a pass that sees no crossing moves the time back by the step
\* and keeps the step; a pass that sees one moves the time forward by the step
\* and then brings a step above 20000 down to 20000 and halves any other:
\* from 600000 the steps are 20000, 10000, 5000, 2500, 1250, 625 and, at
\* 312.5, the end.
C26_CrossingCutsStep ==
  (last.op = "lastCrossing" /\ ~last.threw /\ last.prop > 0)
    => \A i \in 1..Len(out[1]) :
         LET pass == out[1][i]
             step == StepBefore(out[1], i)
         IN  /\ (i < Len(out[1]) \/ last.val # -1)
                  => TimeAfter(out[1], i, last.val)
                       = (IF pass[4] THEN pass[1] + step ELSE pass[1] - step)
             /\ pass[3] = (IF ~pass[4] THEN step
                           ELSE IF step > 20000 THEN 20000
                           ELSE step \div 2)
             /\ pass[3] \in {600000, 20000, 10000, 5000, 2500, 1250, 625, 312}

\* C26 witness: a search that stepped back, saw a crossing at the step of ten
\* minutes, went on at 20000 ms and ended below 500 ms.
C26_Witness ==
  /\ last.op = "lastCrossing" /\ ~last.threw /\ last.prop > 0 /\ last.val # -1
  /\ \E i \in 2..Len(out[1]) :
       /\ ~out[1][i - 1][4] /\ out[1][i - 1][3] = 600000
       /\ out[1][i][4] /\ out[1][i][3] = 20000
       /\ out[1][i][1] = out[1][i - 1][1] - 600000
  /\ out[1][Len(out[1])][3] = 312

====
